---- MODULE Spec2Model ----
(***************************************************************************)
(* PhantomMask v1: per-application ed25519 identities derived from one     *)
(* master key (core/derive.ts), message signing and verification           *)
(* (core/sign.ts), the sha512 hook of the ed25519 object (core/noble.ts)   *)
(* and the two HTTP route handlers (app/api/derive, app/api/sign).         *)
(*                                                                         *)
(* Values.  A JavaScript string is a sequence of UTF-16 code units,        *)
(* <<"str", units>>.  A byte array is <<"raw", bytes>> when its bytes are  *)
(* known numbers.  The outputs of HMAC-SHA512 and of ed25519 are terms     *)
(* over their inputs (<<"hmac", key, msg>>, <<"pub", hash, sk>>,           *)
(* <<"sig", hash, sk, msg, nonce>>): two outputs are equal exactly when    *)
(* they were computed from equal inputs, which is the collision-free       *)
(* reading of the primitives.  The base58 text of such a term is           *)
(* <<"b58", term>>.  TextEncoder and base58 on literal text are computed.  *)
(***************************************************************************)
EXTENDS Integers, Sequences, FiniteSets, TLC

VARIABLES sha512Sync, loaded, last, reqs

vars == <<sha512Sync, loaded, last, reqs>>

(***************************************************************************)
(* Results of a call: a returned value or a thrown Error with its message. *)
(***************************************************************************)
Ok(v) == [ok |-> TRUE, val |-> v, err |-> <<>>]

Throw(e) == [ok |-> FALSE, val |-> <<>>, err |-> e]

Str(units) == <<"str", units>>

\* the parts of an Error message: fixed text and interpolated values
Text(t) == <<"text", t>>

Num(n) == <<"num", n>>

Raw(bytes) == <<"raw", bytes>>

(***************************************************************************)
(* new TextEncoder().encode(s): UTF-8 of the string's code points.  A      *)
(* surrogate pair is one code point; a surrogate that is not part of a     *)
(* pair is replaced by U+FFFD.                                             *)
(***************************************************************************)
IsHighSurrogate(u) == u >= 55296 /\ u <= 56319

IsLowSurrogate(u) == u >= 56320 /\ u <= 57343

Utf8(cp) ==
  IF cp < 128 THEN <<cp>>
  ELSE IF cp < 2048 THEN <<192 + (cp \div 64), 128 + (cp % 64)>>
  ELSE IF cp < 65536
    THEN <<224 + (cp \div 4096), 128 + ((cp \div 64) % 64), 128 + (cp % 64)>>
  ELSE <<240 + (cp \div 262144), 128 + ((cp \div 4096) % 64),
         128 + ((cp \div 64) % 64), 128 + (cp % 64)>>

RECURSIVE EncodeUnits(_)
EncodeUnits(u) ==
  IF u = <<>> THEN <<>>
  ELSE IF IsHighSurrogate(u[1]) /\ Len(u) >= 2 /\ IsLowSurrogate(u[2])
    THEN Utf8(65536 + (u[1] - 55296) * 1024 + (u[2] - 56320))
         \o EncodeUnits(Tail(Tail(u)))
  ELSE IF IsHighSurrogate(u[1]) \/ IsLowSurrogate(u[1])
    THEN Utf8(65533) \o EncodeUnits(Tail(u))
  ELSE Utf8(u[1]) \o EncodeUnits(Tail(u))

TextEncoder_encode(s) == Raw(EncodeUnits(s[2]))

(***************************************************************************)
(* bs58: the Bitcoin alphabet, as the code units of                        *)
(* "123456789ABCDEFGHJKLMNPQRSTUVWXYZabcdefghijkmnopqrstuvwxyz".           *)
(* decode throws on a character outside the alphabet; each leading '1' is  *)
(* a leading zero byte and the rest is one number written in base 58.      *)
(***************************************************************************)
ALPHABET ==
  <<49, 50, 51, 52, 53, 54, 55, 56, 57,
    65, 66, 67, 68, 69, 70, 71, 72, 74, 75, 76, 77, 78,
    80, 81, 82, 83, 84, 85, 86, 87, 88, 89, 90,
    97, 98, 99, 100, 101, 102, 103, 104, 105, 106, 107,
    109, 110, 111, 112, 113, 114, 115, 116, 117, 118, 119, 120, 121, 122>>

BASE == Len(ALPHABET)

DigitOf(u) == CHOOSE d \in 0..(BASE - 1) : ALPHABET[d + 1] = u

RECURSIVE Reverse(_)
Reverse(s) == IF s = <<>> THEN <<>> ELSE Append(Reverse(Tail(s)), s[1])

RECURSIVE LeadingCount(_, _)
LeadingCount(s, x) ==
  IF s # <<>> /\ s[1] = x THEN 1 + LeadingCount(Tail(s), x) ELSE 0

\* num (little-endian digits in base `to`) * mul + carry
RECURSIVE MulAdd(_, _, _, _)
MulAdd(num, mul, carry, to) ==
  IF num = <<>>
    THEN IF carry = 0 THEN <<>>
         ELSE <<carry % to>> \o MulAdd(<<>>, mul, carry \div to, to)
    ELSE <<(num[1] * mul + carry) % to>>
         \o MulAdd(Tail(num), mul, (num[1] * mul + carry) \div to, to)

\* the number with big-endian digits `digits` in base `from`, as little-endian
\* digits in base `to`, without leading zero digits
RECURSIVE Convert(_, _, _, _)
Convert(digits, from, to, acc) ==
  IF digits = <<>> THEN acc
  ELSE Convert(Tail(digits), from, to, MulAdd(acc, from, digits[1], to))

Zeros(n) == [i \in 1..n |-> 0]

Base58DecodeUnits(u) ==
  LET zeroes == LeadingCount(u, ALPHABET[1])
      rest == SubSeq(u, zeroes + 1, Len(u))
      digits == [i \in 1..Len(rest) |-> DigitOf(rest[i])]
  IN Zeros(zeroes) \o Reverse(Convert(digits, BASE, 256, <<>>))

Base58EncodeBytes(b) ==
  LET zeroes == LeadingCount(b, 0)
      rest == SubSeq(b, zeroes + 1, Len(b))
      digits == Reverse(Convert(rest, 256, BASE, <<>>))
  IN [i \in 1..zeroes |-> ALPHABET[1]]
     \o [i \in 1..Len(digits) |-> ALPHABET[digits[i] + 1]]

bs58_decode(s) ==
  IF s[1] = "b58" THEN Ok(s[2])
  ELSE IF \E i \in 1..Len(s[2]) : \A d \in 1..BASE : ALPHABET[d] # s[2][i]
    THEN Throw(<<Text("Non-base58 character")>>)
  ELSE Ok(Raw(Base58DecodeUnits(s[2])))

bs58_encode(b) ==
  IF b[1] = "raw" THEN Str(Base58EncodeBytes(b[2])) ELSE <<"b58", b>>

(***************************************************************************)
(* Byte arrays that are outputs of the primitives.                         *)
(***************************************************************************)
ByteLength(b) ==
  CASE b[1] = "raw" -> Len(b[2])
    [] b[1] = "hmac" -> 64
    [] b[1] = "slice" -> b[4] - b[3]
    [] b[1] = "pub" -> 32
    [] b[1] = "sig" -> 64

Min(a, b) == IF a < b THEN a ELSE b

\* Uint8Array.prototype.slice(start, end), 0 <= start <= end
Slice(b, start, end) ==
  LET e == Min(end, ByteLength(b))
  IN IF b[1] = "raw" THEN Raw(SubSeq(b[2], start + 1, e))
     ELSE IF start = 0 /\ e = ByteLength(b) THEN b
     ELSE <<"slice", b, start, e>>

\* hmac(sha512, key, message) of @noble/hashes: 64 bytes
hmac_sha512(key, message) == <<"hmac", key, message>>

(***************************************************************************)
(* The ed object of core/noble.ts.  The synchronous methods hash with      *)
(* ed.etc.sha512Sync and throw while it is not set.  A private key is any  *)
(* 32 bytes.  A signature made with private key sk over msg is             *)
(* <<"sig", hash, sk, msg, nonce>>; ed.sign uses the nonce RFC 8032        *)
(* derives from the key and the message, and ed.verify accepts a           *)
(* signature made with any nonce.  Literal bytes given as a public key or  *)
(* as a signature are ones that belong to no key of the model (NotPoint    *)
(* below decompresses to no curve point), and ed.verify answers false.     *)
(***************************************************************************)
HookError == Throw(<<Text("etc.sha512Sync not set")>>)

LengthError == Throw(<<Text("Uint8Array of valid length expected")>>)

ed_getPublicKey(privKey) ==
  IF ByteLength(privKey) # 32 THEN LengthError
  ELSE IF sha512Sync = "unset" THEN HookError
  ELSE Ok(<<"pub", sha512Sync, privKey>>)

ed_sign(msg, privKey) ==
  IF ByteLength(privKey) # 32 THEN LengthError
  ELSE IF sha512Sync = "unset" THEN HookError
  ELSE Ok(<<"sig", sha512Sync, privKey, msg, "rfc8032">>)

ed_verify(sig, msg, pubKey) ==
  IF ByteLength(sig) # 64 THEN LengthError
  ELSE IF sha512Sync = "unset" THEN HookError
  ELSE Ok(/\ sig[1] = "sig"
          /\ pubKey[1] = "pub"
          /\ sig[2] = sha512Sync
          /\ pubKey[2] = sha512Sync
          /\ sig[3] = pubKey[3]
          /\ sig[4] = msg)

(***************************************************************************)
(* core/derive.ts                                                          *)
(***************************************************************************)
\* 'PhantomMask-v1-app:'
DOMAIN_SEPARATOR ==
  <<80, 104, 97, 110, 116, 111, 109, 77, 97, 115, 107, 45, 118, 49, 45,
    97, 112, 112, 58>>

\* DeriveFromBytes with the appId left out of the HMAC message
DeriveFromBytes_NoAppId(masterKeyBytes, appId) ==
  LET messageBytes == TextEncoder_encode(Str(DOMAIN_SEPARATOR))
      derivedPrivateKey ==
        Slice(hmac_sha512(masterKeyBytes, messageBytes), 0, 32)
      derivedPublicKey == ed_getPublicKey(derivedPrivateKey)
  IN IF ~derivedPublicKey.ok THEN derivedPublicKey
     ELSE Ok([privateKey |-> bs58_encode(derivedPrivateKey),
              publicKey |-> bs58_encode(derivedPublicKey.val)])

\* DeriveFromBytes returning the public key of the master key instead of the
\* public key of the derived key
DeriveFromBytes_MasterPublicKey(masterKeyBytes, appId) ==
  LET domainMessage == Str(DOMAIN_SEPARATOR \o appId[2])
      messageBytes == TextEncoder_encode(domainMessage)
      hmacOutput == hmac_sha512(masterKeyBytes, messageBytes)
      derivedPrivateKey == Slice(hmacOutput, 0, 32)
      derivedPublicKey == ed_getPublicKey(masterKeyBytes)
  IN IF ~derivedPublicKey.ok THEN derivedPublicKey
     ELSE Ok([privateKey |-> bs58_encode(derivedPrivateKey),
              publicKey |-> bs58_encode(derivedPublicKey.val)])

\* lines 120-139: the steps after the length check
DeriveFromBytes(masterKeyBytes, appId) ==
  LET domainMessage == Str(DOMAIN_SEPARATOR \o appId[2])
      messageBytes == TextEncoder_encode(domainMessage)
      hmacOutput == hmac_sha512(masterKeyBytes, messageBytes)
      derivedPrivateKey == Slice(hmacOutput, 0, 32)
      derivedPublicKey == ed_getPublicKey(derivedPrivateKey)
  IN IF ~derivedPublicKey.ok THEN derivedPublicKey
     ELSE Ok([privateKey |-> bs58_encode(derivedPrivateKey),
              publicKey |-> bs58_encode(derivedPublicKey.val)])

\* deriveAppIdentity building its HMAC message in a buffer shared by all
\* calls, so that a call right after another derivation reads that one's appId
deriveAppIdentity_StaleBuffer(masterPrivateKey, appId) ==
  LET masterKeyBytes == bs58_decode(masterPrivateKey)
      buffered == IF last.fn = "derive" THEN last.args[2] ELSE appId
  IN IF ~masterKeyBytes.ok THEN masterKeyBytes
     ELSE IF ByteLength(masterKeyBytes.val) # 32
       THEN Throw(<<Text("Master private key must be 32 bytes, got "),
                    Num(ByteLength(masterKeyBytes.val))>>)
     ELSE DeriveFromBytes(masterKeyBytes.val, buffered)

deriveAppIdentity(masterPrivateKey, appId) ==
  LET masterKeyBytes == bs58_decode(masterPrivateKey)
  IN IF ~masterKeyBytes.ok THEN masterKeyBytes
     ELSE IF ByteLength(masterKeyBytes.val) # 32
       THEN Throw(<<Text("Master private key must be 32 bytes, got "),
                    Num(ByteLength(masterKeyBytes.val))>>)
     ELSE DeriveFromBytes(masterKeyBytes.val, appId)

(***************************************************************************)
(* core/sign.ts                                                            *)
(***************************************************************************)
\* SignWithBytes signing the low byte of each code unit instead of UTF-8
SignWithBytes_Latin1(privateKeyBytes, message) ==
  LET publicKeyBytes == ed_getPublicKey(privateKeyBytes)
      messageBytes == Raw([i \in 1..Len(message[2]) |-> message[2][i] % 256])
      signatureBytes == ed_sign(messageBytes, privateKeyBytes)
  IN IF ~publicKeyBytes.ok THEN publicKeyBytes
     ELSE IF ~signatureBytes.ok THEN signatureBytes
     ELSE Ok([signature |-> bs58_encode(signatureBytes.val),
              publicKey |-> bs58_encode(publicKeyBytes.val)])

\* lines 27-41: the steps after the length check
SignWithBytes(privateKeyBytes, message) ==
  LET publicKeyBytes == ed_getPublicKey(privateKeyBytes)
      messageBytes == TextEncoder_encode(message)
      signatureBytes == ed_sign(messageBytes, privateKeyBytes)
  IN IF ~publicKeyBytes.ok THEN publicKeyBytes
     ELSE IF ~signatureBytes.ok THEN signatureBytes
     ELSE Ok([signature |-> bs58_encode(signatureBytes.val),
              publicKey |-> bs58_encode(publicKeyBytes.val)])

\* signMessage cutting a longer key down to its first 32 bytes
signMessage_Truncates(derivedPrivateKey, message) ==
  LET privateKeyBytes == bs58_decode(derivedPrivateKey)
  IN IF ~privateKeyBytes.ok THEN privateKeyBytes
     ELSE IF ByteLength(privateKeyBytes.val) < 32
       THEN Throw(<<Text("Derived private key must be 32 bytes, got "),
                    Num(ByteLength(privateKeyBytes.val))>>)
     ELSE SignWithBytes(Slice(privateKeyBytes.val, 0, 32), message)

signMessage(derivedPrivateKey, message) ==
  LET privateKeyBytes == bs58_decode(derivedPrivateKey)
  IN IF ~privateKeyBytes.ok THEN privateKeyBytes
     ELSE IF ByteLength(privateKeyBytes.val) # 32
       THEN Throw(<<Text("Derived private key must be 32 bytes, got "),
                    Num(ByteLength(privateKeyBytes.val))>>)
     ELSE SignWithBytes(privateKeyBytes.val, message)

\* VerifyTry returning the truthiness of an un-awaited verification
VerifyTry_Truthy(signature, message, publicKey) ==
  LET signatureBytes == bs58_decode(signature)
      publicKeyBytes == bs58_decode(publicKey)
  IN IF ~signatureBytes.ok THEN signatureBytes
     ELSE IF ~publicKeyBytes.ok THEN publicKeyBytes
     ELSE IF ByteLength(signatureBytes.val) # 64
       THEN Throw(<<Text("Signature must be 64 bytes, got "),
                    Num(ByteLength(signatureBytes.val))>>)
     ELSE IF ByteLength(publicKeyBytes.val) # 32
       THEN Throw(<<Text("Public key must be 32 bytes, got "),
                    Num(ByteLength(publicKeyBytes.val))>>)
     ELSE Ok(TRUE)

\* lines 58-73: the body of the try block
VerifyTry(signature, message, publicKey) ==
  LET signatureBytes == bs58_decode(signature)
      publicKeyBytes == bs58_decode(publicKey)
  IN IF ~signatureBytes.ok THEN signatureBytes
     ELSE IF ~publicKeyBytes.ok THEN publicKeyBytes
     ELSE IF ByteLength(signatureBytes.val) # 64
       THEN Throw(<<Text("Signature must be 64 bytes, got "),
                    Num(ByteLength(signatureBytes.val))>>)
     ELSE IF ByteLength(publicKeyBytes.val) # 32
       THEN Throw(<<Text("Public key must be 32 bytes, got "),
                    Num(ByteLength(publicKeyBytes.val))>>)
     ELSE ed_verify(signatureBytes.val, TextEncoder_encode(message),
                    publicKeyBytes.val)

\* verifySignature without its catch block
verifySignature_NoCatch(signature, message, publicKey) ==
  VerifyTry(signature, message, publicKey)

\* lines 57, 74-77: whatever the try block throws becomes false
verifySignature(signature, message, publicKey) ==
  LET tried == VerifyTry(signature, message, publicKey)
  IN IF tried.ok THEN tried ELSE Ok(FALSE)

(***************************************************************************)
(* Callers of the core (scripts/cli.ts).  `last` is the most recent call:  *)
(* its function, arguments and result, and in `src` the earlier call the   *)
(* caller still holds, when the arguments were taken from what that call   *)
(* was given or returned.                                                  *)
(***************************************************************************)
MaxDepth == 3

MaxReq == 2

Ones(n) == [i \in 1..n |-> ALPHABET[1]]

\* the base58 text of 32 zero bytes
K0 == Str(Ones(32))

\* decoded lengths 0, 1, 31, 32, 33, 64, and a text that is not base58 ("0")
KeyLits ==
  {Str(<<>>), Str(<<50>>), Str(Ones(31)), K0, Str(Ones(33)), Str(Ones(64)),
   Str(<<48>>)}

\* "a", a lone surrogate "\uD800", and "�"
Texts == {Str(<<97>>), Str(<<55296>>), Str(<<65533>>)}

\* not base58, 63 bytes, 64 zero bytes
SigLits == {Str(<<48>>), Str(Ones(63)), Str(Ones(64))}

\* 31 zero bytes and 1: y = 2^248 is the y of no point of the curve
NotPoint == Str(Ones(31) \o <<50>>)

\* not base58, 31 bytes, 32 bytes that are no curve point
PubLits == {Str(<<48>>), Str(Ones(31)), NotPoint}

NoCall == [fn |-> "none"]

Apply(fn, args) ==
  CASE fn = "derive" -> deriveAppIdentity(args[1], args[2])
    [] fn = "sign" -> signMessage(args[1], args[2])
    [] fn = "verify" -> verifySignature(args[1], args[2], args[3])

RECURSIVE Chain(_)
Chain(r) == IF r.fn = "none" THEN <<>> ELSE <<r>> \o Chain(r.src)

Depth(r) == Len(Chain(r))

\* the key, signature and public-key texts a call was given or returned
StringsOf(r) ==
  CASE r.fn = "derive" ->
         {r.args[1]} \cup (IF r.out.ok
                           THEN {r.out.val.privateKey, r.out.val.publicKey}
                           ELSE {})
    [] r.fn = "sign" ->
         {r.args[1]} \cup (IF r.out.ok
                           THEN {r.out.val.signature, r.out.val.publicKey}
                           ELSE {})
    [] r.fn = "verify" -> {r.args[1], r.args[3]}

Held(r) == UNION {StringsOf(Chain(r)[i]) : i \in 1..Depth(r)}

\* a signature over the same message by the holder of the same private key,
\* made with another nonce than the one ed.sign derives
Resigned(r) ==
  IF r.fn = "sign" /\ r.out.ok
    THEN {bs58_encode(<<"sig", sha512Sync, bs58_decode(r.args[1]).val,
                        TextEncoder_encode(r.args[2]), "other">>)}
    ELSE {}

HeldSignatures(r) ==
  Held(r) \cup UNION {Resigned(Chain(r)[i]) : i \in 1..Depth(r)}

CanExtend(r) ==
  /\ r.fn \in {"derive", "sign"}
  /\ r.out.ok
  /\ Depth(r) < MaxDepth

\* core/noble.ts line 10, run once when the module is first imported
LoadNoble ==
  /\ ~loaded
  /\ loaded' = TRUE
  /\ sha512Sync' = "sha512"
  /\ UNCHANGED <<last, reqs>>

Call(fn, args, src) ==
  /\ loaded
  /\ last' = [fn |-> fn, args |-> args, out |-> Apply(fn, args), src |-> src]
  /\ UNCHANGED <<sha512Sync, loaded, reqs>>

Derive(masterPrivateKey, appId, src) ==
  Call("derive", <<masterPrivateKey, appId>>, src)

Sign(derivedPrivateKey, message, src) ==
  Call("sign", <<derivedPrivateKey, message>>, src)

Verify(signature, message, publicKey, src) ==
  Call("verify", <<signature, message, publicKey>>, src)

\* the same call once more (runTests, Test 1)
Repeat ==
  /\ last.fn # "none"
  /\ Depth(last) < MaxDepth
  /\ \E i \in 1..Depth(last) :
       Call(Chain(last)[i].fn, Chain(last)[i].args, last)

\* the caller lets go of the calls it held (each CLI run is its own process)
Drop ==
  /\ last.fn # "none"
  /\ last' = NoCall
  /\ UNCHANGED <<sha512Sync, loaded, reqs>>

(***************************************************************************)
(* The route handlers (app/api/derive/route.ts, app/api/sign/route.ts).    *)
(* A request carries a body text: <<"invalid">> is no JSON, <<"json", v>>  *)
(* is the JSON text of the value v.  A JavaScript value is <<"undefined">>,*)
(* <<"null">>, <<"number", n>>, <<"string", s>> or <<"object", v1, v2>>,   *)
(* an object whose two fields of interest hold v1 and v2 (a field the      *)
(* object lacks reads as undefined).                                       *)
(***************************************************************************)
Undefined == <<"undefined">>

Null == <<"null">>

JNum(n) == <<"number", n>>

JStr(s) == <<"string", s>>

JObj(first, second) == <<"object", first, second>>

\* await request.json()
request_json(text) ==
  IF text[1] = "invalid"
    THEN Throw(<<Text("Unexpected token in JSON")>>)
    ELSE Ok(text[2])

\* const { first, second } = body: the n-th of the two properties
Property(body, n) == IF body[1] = "object" THEN body[n + 1] ELSE Undefined

\* !v
Falsy(v) ==
  \/ v[1] \in {"undefined", "null"}
  \/ v[1] = "number" /\ v[2] = 0
  \/ v[1] = "string" /\ v[2] = Str(<<>>)

Response(status, body) == Ok([status |-> status, body |-> body])

Handled(response, core) == [resp |-> response, core |-> core]

CoreCall(fn, args) ==
  [fn |-> fn, args |-> args, out |-> Apply(fn, args), src |-> NoCall]

\* POST of /api/derive answering with the whole identity
POST_derive_ReturnsIdentity(text) ==
  LET body == request_json(text)
      masterPrivateKey == Property(body.val, 1)
      appId == Property(body.val, 2)
      identity == CoreCall("derive", <<masterPrivateKey[2], appId[2]>>)
      Failed(err) ==
        Response(500, [error |-> <<Text("Derivation failed: ")>> \o err])
  IN IF ~body.ok THEN Handled(Failed(body.err), NoCall)
     ELSE IF body.val[1] = "null"
       THEN Handled(Failed(<<Text(
              "Cannot destructure property of 'body' as it is null.")>>),
              NoCall)
     ELSE IF Falsy(masterPrivateKey) \/ masterPrivateKey[1] # "string"
       THEN Handled(Response(400, [error |-> <<Text(
              "Invalid request: masterPrivateKey is required and must be a string")>>]),
              NoCall)
     ELSE IF Falsy(appId) \/ appId[1] # "string"
       THEN Handled(Response(400, [error |-> <<Text(
              "Invalid request: appId is required and must be a string")>>]),
              NoCall)
     ELSE IF ~identity.out.ok THEN Handled(Failed(identity.out.err), identity)
     ELSE Handled(Response(200, identity.out.val), identity)

\* app/api/derive/route.ts, POST: what it answers and the core call it made
POST_derive(text) ==
  LET body == request_json(text)
      masterPrivateKey == Property(body.val, 1)
      appId == Property(body.val, 2)
      identity == CoreCall("derive", <<masterPrivateKey[2], appId[2]>>)
      Failed(err) ==
        Response(500, [error |-> <<Text("Derivation failed: ")>> \o err])
  IN IF ~body.ok THEN Handled(Failed(body.err), NoCall)
     ELSE IF body.val[1] = "null"
       THEN Handled(Failed(<<Text(
              "Cannot destructure property of 'body' as it is null.")>>),
              NoCall)
     ELSE IF Falsy(masterPrivateKey) \/ masterPrivateKey[1] # "string"
       THEN Handled(Response(400, [error |-> <<Text(
              "Invalid request: masterPrivateKey is required and must be a string")>>]),
              NoCall)
     ELSE IF Falsy(appId) \/ appId[1] # "string"
       THEN Handled(Response(400, [error |-> <<Text(
              "Invalid request: appId is required and must be a string")>>]),
              NoCall)
     ELSE IF ~identity.out.ok THEN Handled(Failed(identity.out.err), identity)
     ELSE Handled(Response(200, [publicKey |-> identity.out.val.publicKey]),
                  identity)

\* POST of /api/sign with the test of its catch block inverted, so that an
\* Error is reported as 'Unknown error occurred'
POST_sign_UnknownError(text) ==
  LET body == request_json(text)
      derivedPrivateKey == Property(body.val, 1)
      message == Property(body.val, 2)
      result == CoreCall("sign", <<derivedPrivateKey[2], message[2]>>)
      Failed(err) ==
        Response(500, [error |-> <<Text("Signing failed: "),
                                   Text("Unknown error occurred")>>])
  IN IF ~body.ok THEN Handled(Failed(body.err), NoCall)
     ELSE IF body.val[1] = "null"
       THEN Handled(Failed(<<Text(
              "Cannot destructure property of 'body' as it is null.")>>),
              NoCall)
     ELSE IF Falsy(derivedPrivateKey) \/ derivedPrivateKey[1] # "string"
       THEN Handled(Response(400, [error |-> <<Text(
              "Invalid request: derivedPrivateKey is required and must be a string")>>]),
              NoCall)
     ELSE IF Falsy(message) \/ message[1] # "string"
       THEN Handled(Response(400, [error |-> <<Text(
              "Invalid request: message is required and must be a string")>>]),
              NoCall)
     ELSE IF ~result.out.ok THEN Handled(Failed(result.out.err), result)
     ELSE Handled(Response(200, [signature |-> result.out.val.signature,
                                 publicKey |-> result.out.val.publicKey]),
                  result)

\* app/api/sign/route.ts, POST
POST_sign(text) ==
  LET body == request_json(text)
      derivedPrivateKey == Property(body.val, 1)
      message == Property(body.val, 2)
      result == CoreCall("sign", <<derivedPrivateKey[2], message[2]>>)
      Failed(err) ==
        Response(500, [error |-> <<Text("Signing failed: ")>> \o err])
  IN IF ~body.ok THEN Handled(Failed(body.err), NoCall)
     ELSE IF body.val[1] = "null"
       THEN Handled(Failed(<<Text(
              "Cannot destructure property of 'body' as it is null.")>>),
              NoCall)
     ELSE IF Falsy(derivedPrivateKey) \/ derivedPrivateKey[1] # "string"
       THEN Handled(Response(400, [error |-> <<Text(
              "Invalid request: derivedPrivateKey is required and must be a string")>>]),
              NoCall)
     ELSE IF Falsy(message) \/ message[1] # "string"
       THEN Handled(Response(400, [error |-> <<Text(
              "Invalid request: message is required and must be a string")>>]),
              NoCall)
     ELSE IF ~result.out.ok THEN Handled(Failed(result.out.err), result)
     ELSE Handled(Response(200, [signature |-> result.out.val.signature,
                                 publicKey |-> result.out.val.publicKey]),
                  result)

\* POST keeping the parsed body in a variable of the module, which a request
\* that arrived later and is still waiting has overwritten
POST_SharedBody(route, text) ==
  LET waiting == {j \in DOMAIN reqs : reqs[j].pc = "awaiting"}
      latest == CHOOSE j \in waiting : \A k \in waiting : k <= j
      shared == IF waiting = {} THEN text ELSE reqs[latest].text
  IN IF route = "derive" THEN POST_derive(shared) ELSE POST_sign(shared)

POST(route, text) ==
  IF route = "derive" THEN POST_derive(text) ELSE POST_sign(text)

\* request bodies: no JSON, null, a number, and objects whose first field is
\* absent, a number, "", a 32-byte key, a 31-byte key or no base58, and whose
\* second field is absent, 0, "" or "a"
FirstValues ==
  {Undefined, JNum(5), JStr(Str(<<>>)), JStr(K0), JStr(Str(Ones(31))),
   JStr(Str(<<48>>))}

SecondValues == {Undefined, JNum(0), JStr(Str(<<>>)), JStr(Str(<<97>>))}

Bodies ==
  {<<"invalid">>, <<"json", Null>>, <<"json", JNum(7)>>}
    \cup {<<"json", JObj(a, b)>> : a \in FirstValues, b \in SecondValues}

Routes == {"derive", "sign"}

\* a request reaches POST, which runs up to `await request.json()`
Arrive(i, route, text) ==
  /\ loaded
  /\ reqs[i].pc = "idle"
  /\ reqs' = [reqs EXCEPT ![i] = [pc |-> "awaiting", route |-> route,
                                  text |-> text]]
  /\ UNCHANGED <<sha512Sync, loaded, last>>

\* the body has been read: the rest of POST runs without another await;
\* `overlap` notes that another request was waiting for its body meanwhile
Resume(i) ==
  /\ reqs[i].pc = "awaiting"
  /\ reqs' = [reqs EXCEPT ![i] =
       [pc |-> "done", route |-> reqs[i].route, text |-> reqs[i].text,
        resp |-> POST(reqs[i].route, reqs[i].text).resp,
        core |-> POST(reqs[i].route, reqs[i].text).core,
        overlap |-> \E j \in DOMAIN reqs : j # i /\ reqs[j].pc = "awaiting"]]
  /\ UNCHANGED <<sha512Sync, loaded, last>>

Idle == [pc |-> "idle"]

Init ==
  /\ sha512Sync = "unset"
  /\ loaded = FALSE
  /\ last = NoCall
  /\ reqs = [i \in 1..MaxReq |-> Idle]

Next ==
  \/ LoadNoble
  \/ /\ last.fn = "none"
     /\ \E k \in KeyLits, a \in Texts : Derive(k, a, NoCall)
  \/ /\ last.fn = "none"
     /\ \E k \in KeyLits, m \in Texts : Sign(k, m, NoCall)
  \/ /\ last.fn = "none"
     /\ \E s \in SigLits, m \in Texts, p \in PubLits : Verify(s, m, p, NoCall)
  \/ /\ CanExtend(last)
     /\ \E k \in Held(last), a \in Texts : Derive(k, a, last)
  \/ /\ CanExtend(last)
     /\ \E k \in Held(last), m \in Texts : Sign(k, m, last)
  \/ /\ CanExtend(last)
     /\ \E s \in SigLits \cup HeldSignatures(last), m \in Texts,
           p \in PubLits \cup Held(last) :
          /\ s \notin SigLits \/ p \notin PubLits
          /\ Verify(s, m, p, last)
  \/ Repeat
  \/ Drop

Spec == Init /\ [][Next]_vars

NextHttp ==
  \/ LoadNoble
  \/ \E i \in 1..MaxReq, route \in Routes, text \in Bodies :
       Arrive(i, route, text)
  \/ \E i \in 1..MaxReq : Resume(i)

SpecHttp == Init /\ [][NextHttp]_vars

(***************************************************************************)
(* Properties of the core, over the calls the caller holds (Spec).         *)
(***************************************************************************)
CallAt(i) == Chain(last)[i]

ValidKey(s) == bs58_decode(s).ok /\ ByteLength(bs58_decode(s).val) = 32

SameDerivation(a, b) ==
  /\ a.fn = "derive"
  /\ b.fn = "derive"
  /\ a.args = b.args
  /\ ValidKey(a.args[1])

\* C1: two calls of deriveAppIdentity with the same 32-byte master key and
\* the same appId return the same privateKey and the same publicKey, whatever
\* was called in between.
C1_Determinism ==
  \A i, j \in 1..Depth(last) :
    SameDerivation(CallAt(i), CallAt(j)) =>
      /\ CallAt(i).out.ok
      /\ CallAt(j).out.ok
      /\ CallAt(i).out.val.privateKey = CallAt(j).out.val.privateKey
      /\ CallAt(i).out.val.publicKey = CallAt(j).out.val.publicKey

\* a derivation, another call, and the same derivation again
C1_Witness ==
  /\ Depth(last) >= 3
  /\ SameDerivation(CallAt(1), CallAt(3))
  /\ CallAt(2).fn = "sign"
  /\ CallAt(1).out.ok
  /\ CallAt(1).out.val = CallAt(3).out.val

SameMaster(a, b) ==
  /\ a.fn = "derive"
  /\ b.fn = "derive"
  /\ a.args[1] = b.args[1]
  /\ ValidKey(a.args[1])

DistinctIdentities(a, b) ==
  /\ a.out.ok
  /\ b.out.ok
  /\ a.out.val.publicKey # b.out.val.publicKey

SignsWithDerived(s, d) ==
  /\ d.fn = "derive"
  /\ d.out.ok
  /\ s.fn = "sign"
  /\ s.args[1] = d.out.val.privateKey

\* what signMessage returned, with the message it signed
SignedTriple(s) == <<s.out.val.signature, s.args[2], s.out.val.publicKey>>

\* C3: signMessage with a private key made by deriveAppIdentity returns, and
\* verifySignature of the returned signature, the message and the returned
\* public key is true.
C3_RoundTrip ==
  \A i \in 1..Depth(last) :
    (i < Depth(last) /\ SignsWithDerived(CallAt(i), CallAt(i + 1))) =>
      /\ CallAt(i).out.ok
      /\ (/\ i > 1
          /\ CallAt(i - 1).fn = "verify"
          /\ CallAt(i - 1).args = SignedTriple(CallAt(i)))
           => (CallAt(i - 1).out.ok /\ CallAt(i - 1).out.val = TRUE)

C3_Witness ==
  /\ Depth(last) >= 3
  /\ SignsWithDerived(CallAt(2), CallAt(3))
  /\ CallAt(2).args[2] = Str(<<55296>>)
  /\ last.fn = "verify"
  /\ last.args = SignedTriple(CallAt(2))
  /\ last.out.val = TRUE

\* the places where the arguments of the verification v differ from what the
\* signing s was given and returned
Replaced(v, s) == {k \in 1..3 : v.args[k] # SignedTriple(s)[k]}

\* v verifies what s returned with exactly one of the three replaced
TamperedOnce(v, s) ==
  /\ v.fn = "verify"
  /\ s.fn = "sign"
  /\ s.out.ok
  /\ verifySignature(SignedTriple(s)[1], SignedTriple(s)[2],
                     SignedTriple(s)[3]).val = TRUE
  /\ Cardinality(Replaced(v, s)) = 1

Rejected(v) == v.out.ok /\ v.out.val = FALSE

\* C4 as stated: with the message, the signature or the public key of a
\* verifying triple replaced by any different value, verifySignature is false.
C4_AnyReplacement ==
  \A i \in 1..Depth(last) :
    (i < Depth(last) /\ TamperedOnce(CallAt(i), CallAt(i + 1)))
      => Rejected(CallAt(i))

\* C4 amended: verifySignature is false when the message is replaced by a
\* string with another UTF-8 encoding, the public key by any other string,
\* or the signature by any other string that is not itself a signature over
\* the message made with the same private key.
C4_TamperDetected ==
  \A i \in 1..Depth(last) :
    (/\ i < Depth(last)
     /\ TamperedOnce(CallAt(i), CallAt(i + 1))
     /\ 1 \in Replaced(CallAt(i), CallAt(i + 1))
          => CallAt(i).args[1] \notin Resigned(CallAt(i + 1))
     /\ 2 \in Replaced(CallAt(i), CallAt(i + 1))
          => TextEncoder_encode(CallAt(i).args[2])
               # TextEncoder_encode(CallAt(i + 1).args[2]))
      => Rejected(CallAt(i))

C4_Witness ==
  /\ Depth(last) >= 2
  /\ TamperedOnce(last, CallAt(2))
  /\ Replaced(last, CallAt(2)) = {2}
  /\ CallAt(2).args[2] = Str(<<65533>>)
  /\ last.args[2] = Str(<<97>>)
  /\ Rejected(last)

\* the signature or the public key is no base58, has the wrong length, or
\* the public key is no curve point
Malformed(signature, publicKey) ==
  \/ ~bs58_decode(signature).ok
  \/ ~bs58_decode(publicKey).ok
  \/ ByteLength(bs58_decode(signature).val) # 64
  \/ ByteLength(bs58_decode(publicKey).val) # 32
  \/ publicKey = NotPoint

\* C5: verifySignature returns a boolean for every input and never throws,
\* and returns false for a malformed signature or public key.
C5_VerifyTotal ==
  \A i \in 1..Depth(last) :
    CallAt(i).fn = "verify" =>
      /\ CallAt(i).out.ok
      /\ CallAt(i).out.val \in BOOLEAN
      /\ Malformed(CallAt(i).args[1], CallAt(i).args[3]) => ~CallAt(i).out.val

C5_Witness ==
  /\ last.fn = "verify"
  /\ ~bs58_decode(last.args[1]).ok
  /\ last.args[3] = NotPoint
  /\ Rejected(last)

WrongLength(r) ==
  /\ r.fn \in {"derive", "sign"}
  /\ bs58_decode(r.args[1]).ok
  /\ ByteLength(bs58_decode(r.args[1]).val) # 32

KeyLengthError(r) ==
  <<Text(IF r.fn = "derive"
         THEN "Master private key must be 32 bytes, got "
         ELSE "Derived private key must be 32 bytes, got "),
    Num(ByteLength(bs58_decode(r.args[1]).val))>>

\* C6: deriveAppIdentity and signMessage given a key that decodes to another
\* length than 32 bytes throw the key-length error and return nothing.
C6_LengthValidation ==
  \A i \in 1..Depth(last) :
    WrongLength(CallAt(i)) =>
      (~CallAt(i).out.ok /\ CallAt(i).out.err = KeyLengthError(CallAt(i)))

\* a signature (64 bytes) that signMessage returned, given back as the key
C6_Witness ==
  /\ Depth(last) >= 2
  /\ CallAt(2).fn = "sign"
  /\ CallAt(2).out.ok
  /\ last.fn = "sign"
  /\ last.args[1] = CallAt(2).out.val.signature
  /\ WrongLength(last)
  /\ last.out.err = KeyLengthError(last)

\* C11: every call of deriveAppIdentity either throws the key-length error,
\* exactly when the master key does not decode to 32 bytes, or returns an
\* object with both privateKey and publicKey; it fails in no other way.
C11_SingleFailureMode ==
  \A i \in 1..Depth(last) :
    CallAt(i).fn = "derive" =>
      IF ValidKey(CallAt(i).args[1])
        THEN /\ CallAt(i).out.ok
             /\ DOMAIN CallAt(i).out.val = {"privateKey", "publicKey"}
        ELSE /\ ~CallAt(i).out.ok
             /\ CallAt(i).out.err[1]
                  = Text("Master private key must be 32 bytes, got ")

\* C13: signMessage with the private key that deriveAppIdentity returned for
\* a 32-byte master key returns the public key that deriveAppIdentity
\* returned, whatever the message.
C13_IdentityConsistency ==
  \A i, j \in 1..Depth(last) :
    (SignsWithDerived(CallAt(i), CallAt(j)) /\ ValidKey(CallAt(j).args[1])) =>
      /\ CallAt(i).out.ok
      /\ CallAt(i).out.val.publicKey = CallAt(j).out.val.publicKey

\* one derivation, then two messages with different encodings signed with
\* the derived key
C13_Witness ==
  /\ Depth(last) = 3
  /\ SignsWithDerived(CallAt(1), CallAt(3))
  /\ SignsWithDerived(CallAt(2), CallAt(3))
  /\ CallAt(1).args[2] = Str(<<97>>)
  /\ CallAt(2).args[2] = Str(<<55296>>)
  /\ CallAt(1).out.val.signature # CallAt(2).out.val.signature
  /\ CallAt(1).out.val.publicKey = CallAt(3).out.val.publicKey
  /\ CallAt(2).out.val.publicKey = CallAt(3).out.val.publicKey

(***************************************************************************)
(* Properties of the route handlers, over the answered requests (SpecHttp).*)
(***************************************************************************)
Done(i) == reqs[i].pc = "done"

\* the body is JSON of an object whose two fields are non-empty strings
BothStrings(text) ==
  /\ text[1] = "json"
  /\ text[2][1] = "object"
  /\ text[2][2][1] = "string" /\ text[2][2][2] # Str(<<>>)
  /\ text[2][3][1] = "string" /\ text[2][3][2] # Str(<<>>)

\* what the core function of the route does with the two strings
CoreResult(route, text) ==
  Apply(route, <<text[2][2][2], text[2][3][2]>>)

\* the string s is a field of the response body or a part of its error text
Contains(body, s) ==
  \E f \in DOMAIN body :
    IF f = "error" THEN \E k \in 1..Len(body[f]) : body[f][k] = s
    ELSE body[f] = s

GivenMasterKey(text) ==
  /\ text[1] = "json"
  /\ text[2][1] = "object"
  /\ text[2][2][1] = "string"

\* C7: no response of POST /api/derive holds the derived private key or the
\* master private key, and a 200 response holds the field publicKey alone.
C7_NoPrivateKeyInResponse ==
  \A i \in DOMAIN reqs :
    (Done(i) /\ reqs[i].route = "derive") =>
      /\ reqs[i].resp.ok
      /\ GivenMasterKey(reqs[i].text)
           => ~Contains(reqs[i].resp.val.body, reqs[i].text[2][2][2])
      /\ (BothStrings(reqs[i].text) /\ CoreResult("derive", reqs[i].text).ok)
           => ~Contains(reqs[i].resp.val.body,
                        CoreResult("derive", reqs[i].text).val.privateKey)
      /\ reqs[i].resp.val.status = 200
           => DOMAIN reqs[i].resp.val.body = {"publicKey"}

C7_Witness ==
  \E i \in DOMAIN reqs :
    /\ Done(i)
    /\ reqs[i].route = "derive"
    /\ reqs[i].resp.val.status = 200
    /\ reqs[i].resp.val.body.publicKey
         = CoreResult("derive", reqs[i].text).val.publicKey

\* the body is no JSON, no object, or an object without one of the two fields
MissingField(text) ==
  \/ text[1] = "invalid"
  \/ text[2][1] # "object"
  \/ text[2][2] = Undefined
  \/ text[2][3] = Undefined

\* C8: a request that lacks one of the two required fields, also one whose
\* body is null, no object or no JSON, is answered 400 without a call of the
\* core function.
C8_MissingFieldIs400 ==
  \A i \in DOMAIN reqs :
    (Done(i) /\ MissingField(reqs[i].text)) =>
      /\ reqs[i].resp.ok
      /\ reqs[i].resp.val.status = 400
      /\ reqs[i].core.fn = "none"

FailurePrefix(route) ==
  IF route = "derive" THEN "Derivation failed: " ELSE "Signing failed: "

\* C9: when the core function throws, the handler answers 500 with the
\* core's message in the error field and does not throw itself; it answers
\* 200 only when the core function returned.
C9_CoreFailureIs500 ==
  \A i \in DOMAIN reqs :
    Done(i) =>
      /\ reqs[i].resp.ok
      /\ (BothStrings(reqs[i].text)
          /\ ~CoreResult(reqs[i].route, reqs[i].text).ok)
           => /\ reqs[i].resp.val.status = 500
              /\ reqs[i].resp.val.body
                   = [error |-> <<Text(FailurePrefix(reqs[i].route))>>
                        \o CoreResult(reqs[i].route, reqs[i].text).err]
      /\ reqs[i].resp.val.status = 200
           => /\ BothStrings(reqs[i].text)
              /\ reqs[i].core.fn = reqs[i].route
              /\ reqs[i].core.out.ok

C9_Witness ==
  \E i \in DOMAIN reqs :
    /\ Done(i)
    /\ reqs[i].route = "sign"
    /\ reqs[i].core.fn = "sign"
    /\ ~reqs[i].core.out.ok
    /\ reqs[i].resp.val.status = 500
    /\ reqs[i].resp.val.body.error
         = <<Text("Signing failed: "),
             Text("Derived private key must be 32 bytes, got "), Num(31)>>

\* what the handler of the route answers to the body when no other request
\* is under way
RunAlone(route, text) ==
  IF route = "derive" THEN POST_derive(text) ELSE POST_sign(text)

AnsweredAsAlone ==
  \A i \in DOMAIN reqs :
    Done(i) =>
      /\ reqs[i].resp = RunAlone(reqs[i].route, reqs[i].text).resp
      /\ reqs[i].core.fn # "none"
           => reqs[i].core.out = Apply(reqs[i].core.fn, reqs[i].core.args)

StringFields(text) ==
  /\ text[1] = "json"
  /\ text[2][1] = "object"
  /\ text[2][2][1] = "string"
  /\ text[2][3][1] = "string"

\* C12: a request to POST /api/sign whose body has a string derivedPrivateKey
\* and a string message on which signMessage succeeds is answered 200 with
\* exactly the signature and the publicKey that signMessage returns.
C12_SignRouteIsThin ==
  \A i \in DOMAIN reqs :
    (/\ Done(i)
     /\ reqs[i].route = "sign"
     /\ StringFields(reqs[i].text)
     /\ CoreResult("sign", reqs[i].text).ok) =>
      /\ reqs[i].resp.ok
      /\ reqs[i].resp.val.status = 200
      /\ reqs[i].resp.val.body
           = [signature |-> CoreResult("sign", reqs[i].text).val.signature,
              publicKey |-> CoreResult("sign", reqs[i].text).val.publicKey]

====
